---------------------------- MODULE Spec2Model ----------------------------
(* A model of generate_emojis.py: the name normaliser, the base-name      *)
(* extractor, the variant classifier, the categoriser and the catalogue   *)
(* builder.                                                                *)
(*                                                                         *)
(* A Python str is modelled as a sequence of one-symbol strings, one per   *)
(* code point: Str("Red") = <<"R", "e", "d">>.  A code point outside ASCII *)
(* is written as one symbol, "U+1F44D".                                    *)
EXTENDS Integers, Sequences, FiniteSets, TLC

VARIABLES
    \* ---- generate_emoji_data ----
    EMOJI_DATA,          \* emoji.EMOJI_DATA: the dict's items, in dict order
    pc,                  \* the position of generate_emoji_data
    fetch_failed,        \* whether fetch_unicode_emoji_data took its except branch
    unicode_categories,  \* the dict returned by fetch_unicode_emoji_data
    all_emojis,          \* list of {emoji, name, category}
    seen,                \* set of emoji characters already collected
    grouped_emojis,      \* dict base_name -> entry, as its items in insertion order
    variants_map,        \* dict base_name -> list of items, in insertion order
    idx,                 \* index of the running for loop
    vidx,                \* index of the inner loop of lines 191-195
    result,              \* the returned dict
    \* ---- the pure functions, applied to one raw name ----
    step,                \* "raw", "display", "base", "rebase"
    raw_name,            \* the argument of clean_emoji_name
    display,             \* clean_emoji_name(raw_name)
    base,                \* get_base_name(display)
    rebase               \* get_base_name(base)

vars == <<EMOJI_DATA, pc, fetch_failed, unicode_categories, all_emojis, seen,
          grouped_emojis, variants_map, idx, vidx, result,
          step, raw_name, display, base, rebase>>

pipelineVars == <<EMOJI_DATA, pc, fetch_failed, unicode_categories, all_emojis,
                  seen, grouped_emojis, variants_map, idx, vidx, result>>

nameVars == <<step, raw_name, display, base, rebase>>

-----------------------------------------------------------------------------
(* Bounds of the model.                                                    *)

\* The longest dataset (number of items of EMOJI_DATA).
MaxRecords == 3

\* The longest raw name built from the tokens of RawTokens.
MaxWords == 3

\* The longest raw name built from the symbols of RawAlphabet.
MaxRawLen == 4

-----------------------------------------------------------------------------
(* Strings.                                                                *)

Str(s) == [i \in 1..Len(s) |-> SubSeq(s, i, i)]

LowerLetters == Str("abcdefghijklmnopqrstuvwxyz")

UpperLetters == Str("ABCDEFGHIJKLMNOPQRSTUVWXYZ")

IsLowerLetter(c) == \E i \in 1..Len(LowerLetters) : LowerLetters[i] = c

IsUpperLetter(c) == \E i \in 1..Len(UpperLetters) : UpperLetters[i] = c

\* str.upper() of one symbol
UpperChar(c) ==
    IF IsLowerLetter(c)
    THEN UpperLetters[CHOOSE i \in 1..Len(LowerLetters) : LowerLetters[i] = c]
    ELSE c

\* str.lower() of one symbol
LowerChar(c) ==
    IF IsUpperLetter(c)
    THEN LowerLetters[CHOOSE i \in 1..Len(UpperLetters) : UpperLetters[i] = c]
    ELSE c

\* str.lower()
lower(s) == [i \in 1..Len(s) |-> LowerChar(s[i])]

\* The symbols str.split() and the regex class \s take as whitespace.
IsSpace(c) == c = " "

\* s[i:] (1-based, to the end)
From(s, i) == SubSeq(s, i, Len(s))

\* s.startswith(w, i - 1): w occurs in s at position i
OccursAt(s, i, w) ==
    /\ i >= 1
    /\ i + Len(w) - 1 <= Len(s)
    /\ SubSeq(s, i, i + Len(w) - 1) = w

\* w in s
Contains(s, w) == \E i \in 1..(Len(s) + 1) : OccursAt(s, i, w)

\* The first position at or after i that holds no whitespace (Len(s) + 1 if none).
SkipSpaces(s, i) ==
    IF \E j \in i..Len(s) : ~IsSpace(s[j])
    THEN CHOOSE j \in i..Len(s) :
            /\ ~IsSpace(s[j])
            /\ \A k \in i..(j - 1) : IsSpace(s[k])
    ELSE Len(s) + 1

\* The first position at or after i that holds whitespace (Len(s) + 1 if none).
SkipWord(s, i) ==
    IF \E j \in i..Len(s) : IsSpace(s[j])
    THEN CHOOSE j \in i..Len(s) :
            /\ IsSpace(s[j])
            /\ \A k \in i..(j - 1) : ~IsSpace(s[k])
    ELSE Len(s) + 1

\* str.strip(chars) for a one-symbol chars
StripChar(s, c) ==
    IF \A i \in 1..Len(s) : s[i] = c
    THEN <<>>
    ELSE LET lo == CHOOSE i \in 1..Len(s) :
                       s[i] # c /\ \A k \in 1..(i - 1) : s[k] = c
             hi == CHOOSE i \in 1..Len(s) :
                       s[i] # c /\ \A k \in (i + 1)..Len(s) : s[k] = c
         IN  SubSeq(s, lo, hi)

\* str.strip()
strip(s) == StripChar(s, " ")

\* str.replace(old, new) for one-symbol old and new
replace(s, old, new) == [i \in 1..Len(s) |-> IF s[i] = old THEN new ELSE s[i]]

\* str.split(): the maximal runs of non-whitespace, in order
RECURSIVE SplitFrom(_, _)
SplitFrom(s, i) ==
    CHOOSE words \in
        {IF p[1] > Len(s) THEN <<>>
         ELSE <<SubSeq(s, p[1], p[2] - 1)>> \o SplitFrom(s, p[2]) : p \in
        {<<b, SkipWord(s, b)>> : b \in
        {SkipSpaces(s, i)}}} : TRUE

split(s) == SplitFrom(s, 1)

\* sep.join(words) for a one-symbol sep
RECURSIVE join(_, _)
join(sep, words) ==
    IF words = <<>> THEN <<>>
    ELSE IF Len(words) = 1 THEN words[1]
    ELSE words[1] \o <<sep>> \o join(sep, Tail(words))

-----------------------------------------------------------------------------
(* clean_emoji_name, lines 9-14.                                           *)

\* A slip that upper-cases the first symbol and leaves the rest as it is.
capitalize_first_only(word) ==
    IF word = <<>> THEN <<>>
    ELSE <<UpperChar(word[1])>> \o Tail(word)

\* str.capitalize(): the first symbol upper-cased, every other lower-cased
capitalize(word) ==
    IF word = <<>> THEN <<>>
    ELSE <<UpperChar(word[1])>> \o lower(Tail(word))

clean_emoji_name(raw) ==
    CHOOSE name \in
        {join(" ", [i \in 1..Len(words) |-> capitalize(words[i])]) : words \in
        {split(name2) : name2 \in
        {replace(name1, "_", " ") : name1 \in
        {StripChar(raw, ":")}}}} : TRUE

-----------------------------------------------------------------------------
(* get_base_name, lines 16-35.  re.sub(pattern, '', name) with a pattern   *)
(* anchored by $ or ^ removes the leftmost match, which is the only one.   *)

\* The position after a match of  \s+w1\s+w2...  that starts at i, 0 if none.
\* Each w starts with a symbol that is no whitespace, so \s+ takes the whole run.
RECURSIVE MatchWords(_, _, _)
MatchWords(s, i, ws) ==
    IF ws = <<>> THEN i
    ELSE CHOOSE e \in
             {IF j > i /\ OccursAt(s, j, ws[1])
              THEN MatchWords(s, j + Len(ws[1]), Tail(ws))
              ELSE 0 : j \in
             {SkipSpaces(s, i)}} : TRUE

\* re.sub(r'\s+(a1|a2|...)t1\s+t2....*$', '', s): alts and tail are word lists
RemoveClause(s, alts, tail) ==
    CHOOSE r \in
        {IF starts = {} THEN s
         ELSE SubSeq(s, 1, (CHOOSE i \in starts : \A k \in starts : i <= k) - 1) :
         starts \in
        {{i \in 1..Len(s) : \E a \in alts : MatchWords(s, i, a \o tail) # 0}}} : TRUE

\* re.sub(r'\s+(w1|w2|...)$', '', s)
RemoveLastWord(s, ws) ==
    CHOOSE r \in
        {IF starts = {} THEN s
         ELSE SubSeq(s, 1, (CHOOSE i \in starts : \A k \in starts : i <= k) - 1) :
         starts \in
        {{i \in 1..Len(s) : \E w \in ws : MatchWords(s, i, <<w>>) = Len(s) + 1}}} : TRUE

\* line 21: (Light|Medium\s+Light|Medium|Medium\s+Dark|Dark)
SkinTones ==
    { <<Str("Light")>>, <<Str("Medium"), Str("Light")>>, <<Str("Medium")>>,
      <<Str("Medium"), Str("Dark")>>, <<Str("Dark")>> }

\* line 21: \s+Skin\s+Tone
SkinToneTail == <<Str("Skin"), Str("Tone")>>

\* line 24: (Red|Curly|Wavy|Straight)
HairStyles == { <<Str("Red")>>, <<Str("Curly")>>, <<Str("Wavy")>>, <<Str("Straight")>> }

\* line 24: \s+Hair
HairTail == <<Str("Hair")>>

\* line 27: (Person|Man|Woman|...)
GenderPrefixes == { Str("Person"), Str("Man"), Str("Woman") }

\* line 27: Non.?Binary matched at the start of s; the position after it, 0 if none
MatchNonBinary(s) ==
    IF OccursAt(s, 1, Str("NonBinary")) THEN 10
    ELSE IF OccursAt(s, 1, Str("Non")) /\ OccursAt(s, 5, Str("Binary")) THEN 11
    ELSE 0

\* line 30
ColorSuffixes ==
    { Str("Red"), Str("Orange"), Str("Yellow"), Str("Green"), Str("Blue"),
      Str("Purple"), Str("Brown"), Str("Black"), Str("White"), Str("Light"),
      Str("Dark"), Str("Medium") }

\* line 33
TrailingModifiers == { Str("Facing"), Str("Toward"), Str("Light"), Str("Dark") }

\* line 21
RemoveSkinTone(s) == RemoveClause(s, SkinTones, SkinToneTail)

\* line 24
RemoveHairStyle(s) == RemoveClause(s, HairStyles, HairTail)

\* line 27: re.sub(r'^(Person|Man|Woman|Non.?Binary)\s+', '', s)
RemoveGenderPrefix(s) ==
    LET ends == {Len(p) + 1 : p \in {q \in GenderPrefixes : OccursAt(s, 1, q)}}
                    \cup (IF MatchNonBinary(s) # 0 THEN {MatchNonBinary(s)} ELSE {})
        ok   == {e \in ends : SkipSpaces(s, e) > e}
    IN  IF ok = {} THEN s
        ELSE From(s, SkipSpaces(s, CHOOSE e \in ok : TRUE))

\* line 30
RemoveColorSuffix(s) == RemoveLastWord(s, ColorSuffixes)

\* line 33
RemoveTrailingModifier(s) == RemoveLastWord(s, TrailingModifiers)

\* Each rule works on the result of the one before it; an intermediate name is
\* bound as the one element of a set, so that it is computed once.
get_base_name(emoji_name) ==
    CHOOSE name \in
        {strip(n5) : n5 \in
        {RemoveTrailingModifier(n4) : n4 \in
        {RemoveColorSuffix(n3) : n3 \in
        {RemoveGenderPrefix(n2) : n2 \in
        {RemoveHairStyle(n1) : n1 \in
        {RemoveSkinTone(emoji_name)}}}}}} : TRUE

-----------------------------------------------------------------------------
(* should_group, lines 37-47.                                              *)

\* lines 42-45
VariantMarkers ==
    { Str("Skin Tone"), Str("Hair"), Str("Red"), Str("Orange"), Str("Yellow"),
      Str("Green"), Str("Blue"), Str("Purple"), Str("Brown"), Str("Black"),
      Str("White"), Str("Curly"), Str("Wavy"), Str("Straight") }

\* A slip that drops the marker test of lines 42-47.
should_group_no_markers(base_name, full_name) == base_name # full_name

should_group(base_name, full_name) ==
    IF base_name = full_name THEN FALSE
    ELSE \E x \in VariantMarkers : Contains(full_name, x)

-----------------------------------------------------------------------------
(* get_category_from_name, lines 105-124.                                  *)

\* line 109
SmileyKeywords ==
    { Str("face"), Str("smile"), Str("grin"), Str("laugh"), Str("cry"),
      Str("eye"), Str("mouth") }

\* line 111
AnimalKeywords ==
    { Str("animal"), Str("cat"), Str("dog"), Str("bird"), Str("monkey"),
      Str("bear"), Str("panda"), Str("fish"), Str("bug"), Str("butterfly"),
      Str("lion"), Str("tiger"), Str("whale"), Str("shark"), Str("snake"),
      Str("frog"), Str("penguin") }

\* line 113
PlantKeywords ==
    { Str("plant"), Str("tree"), Str("flower"), Str("leaf"), Str("mushroom"),
      Str("cactus"), Str("herb"), Str("clover") }

\* line 115
FoodKeywords ==
    { Str("food"), Str("fruit"), Str("pizza"), Str("burger"), Str("rice"),
      Str("bread"), Str("apple"), Str("orange"), Str("banana"),
      Str("watermelon"), Str("grape"), Str("strawberry"), Str("meat"),
      Str("cake"), Str("candy"), Str("coffee"), Str("beer"), Str("wine") }

\* line 117
TravelKeywords ==
    { Str("car"), Str("train"), Str("bus"), Str("airplane"), Str("rocket"),
      Str("ship"), Str("boat"), Str("bicycle"), Str("motorcycle"),
      Str("taxi"), Str("truck"), Str("travel") }

\* line 119
FlagKeywords ==
    { Str("flag"), Str("country") }

\* line 121
SymbolKeywords ==
    { Str("heart"), Str("star"), Str("diamond"), Str("gem"), Str("sparkle"),
      Str("sun"), Str("moon"), Str("cloud"), Str("fire"), Str("water"),
      Str("arrow"), Str("check"), Str("cross") }

\* any(x in name for x in keywords)
AnyIn(name, keywords) == \E x \in keywords : Contains(name, x)

get_category_from_name(emoji_name) ==
    CHOOSE category \in
        {IF AnyIn(name, SmileyKeywords) THEN Str("Smileys & Emotions")
         ELSE IF AnyIn(name, AnimalKeywords) THEN Str("Animals & Nature")
         ELSE IF AnyIn(name, PlantKeywords) THEN Str("Animals & Nature")
         ELSE IF AnyIn(name, FoodKeywords) THEN Str("Food & Drink")
         ELSE IF AnyIn(name, TravelKeywords) THEN Str("Travel & Places")
         ELSE IF AnyIn(name, FlagKeywords) THEN Str("Flags")
         ELSE IF AnyIn(name, SymbolKeywords) THEN Str("Symbols")
         ELSE Str("Symbols") : name \in
        {lower(emoji_name)}} : TRUE

-----------------------------------------------------------------------------
(* fetch_unicode_emoji_data, lines 49-103.                                 *)
(*                                                                         *)
(* A response is [ok, lines]: ok is FALSE when urlopen, read or decode     *)
(* raises.  A line of emoji-test.txt is modelled after line.strip() by its *)
(* shape:                                                                  *)
(*   [kind |-> "group", text]      starts with '# group:'                  *)
(*   [kind |-> "subgroup", text]   starts with '# subgroup:'               *)
(*   [kind |-> "comment"]          empty, or another line starting with #  *)
(*   [kind |-> "data", nparts, code_points]  any other line; nparts is the *)
(*       number of fields split(';') gives (1 when the line holds no ';'), *)
(*       code_points is parts[0].split(), each [hex, cp]: hex says whether *)
(*       int(text, 16) accepts the text, cp is the code point it denotes.  *)

EmptyDict == <<>>

\* lines 81-98: one data line
ParseDataLine(dict, line, current_group) ==
    IF line.nparts >= 2 /\ line.nparts >= 4
    THEN IF line.code_points # <<>>
         THEN IF line.code_points[1].hex
              THEN LET emoji_char == <<line.code_points[1].cp>>
                   IN  IF emoji_char \notin DOMAIN dict
                       THEN [k \in DOMAIN dict \cup {emoji_char} |->
                                IF k = emoji_char THEN current_group ELSE dict[k]]
                       ELSE dict
              ELSE dict     \* int() raises ValueError: lines 97-98
         ELSE dict
    ELSE dict

\* lines 65-98: the loop over the lines, from line i with the state so far
RECURSIVE ParseLines(_, _, _, _)
ParseLines(lines, i, dict, current_group) ==
    IF i > Len(lines) THEN dict
    ELSE LET line == lines[i]
         IN  IF line.kind = "group"
             THEN ParseLines(lines, i + 1, dict, line.text)
             ELSE IF line.kind \in {"subgroup", "comment"}
             THEN ParseLines(lines, i + 1, dict, current_group)
             ELSE ParseLines(lines, i + 1,
                             ParseDataLine(dict, line, current_group),
                             current_group)

\* A slip that lets the failure of the fetch escape (no try/except).
fetch_unicode_emoji_data_uncaught(response) ==
    IF response.ok
    THEN [raised |-> FALSE,
          value |-> ParseLines(response.lines, 1, EmptyDict, Str("Symbols"))]
    ELSE [raised |-> TRUE, value |-> EmptyDict]

\* [raised, value]: raised says whether an exception leaves the function
fetch_unicode_emoji_data(response) ==
    IF response.ok
    THEN [raised |-> FALSE,
          value |-> ParseLines(response.lines, 1, EmptyDict, Str("Symbols"))]
    ELSE [raised |-> FALSE, value |-> EmptyDict]

-----------------------------------------------------------------------------
(* generate_emoji_data, lines 126-222: its dicts and helpers.              *)
(* A dict whose order matters is the sequence of its items                 *)
(* [key, value], in insertion order.                                       *)

HasKey(dict, k) == \E i \in 1..Len(dict) : dict[i].key = k

KeyIndex(dict, k) == CHOOSE i \in 1..Len(dict) : dict[i].key = k

Get(dict, k) == dict[KeyIndex(dict, k)].value

\* data.get('en', emoji_char), line 142
RawNameOf(item) == IF item.has_en THEN item.en ELSE item.emoji

\* f"{emoji} {name}".lower(), lines 185 and 205
Searchable(emoji_char, name) == lower(emoji_char \o <<" ">> \o name)

\* lines 141-159: all_emojis after the item, which may be skipped
CollectInto(list, item, categories) ==
    CHOOSE after \in
        {IF name = item.emoji \/ name = <<>> THEN list
         ELSE Append(list,
                  [emoji |-> item.emoji,
                   name |-> name,
                   category |-> IF item.emoji \in DOMAIN categories
                                THEN categories[item.emoji]
                                ELSE get_category_from_name(name)]) : name \in
        {clean_emoji_name(RawNameOf(item))}} : TRUE

\* lines 174-176
AddVariant(vmap, base_name, emoji_item) ==
    LET m == IF HasKey(vmap, base_name) THEN vmap
             ELSE Append(vmap, [key |-> base_name, value |-> <<>>])
        i == KeyIndex(m, base_name)
    IN  [m EXCEPT ![i].value = Append(@, emoji_item)]

\* lines 180-186
BaseEntry(emoji_item) ==
    [emoji |-> emoji_item.emoji,
     name |-> emoji_item.name,
     variants |-> <<>>,
     category |-> emoji_item.category,
     searchable |-> Searchable(emoji_item.emoji, emoji_item.name)]

\* A slip that lets a later base candidate replace the recorded entry.
AddBase_last_wins(grouped, base_name, emoji_item) ==
    IF ~HasKey(grouped, base_name)
    THEN Append(grouped, [key |-> base_name, value |-> BaseEntry(emoji_item)])
    ELSE [grouped EXCEPT ![KeyIndex(grouped, base_name)].value = BaseEntry(emoji_item)]

\* lines 179-186
AddBase(grouped, base_name, emoji_item) ==
    IF ~HasKey(grouped, base_name)
    THEN Append(grouped, [key |-> base_name, value |-> BaseEntry(emoji_item)])
    ELSE grouped

\* {"emoji": v["emoji"], "name": v["name"]}, lines 192-195 and 203
VariantRef(v) == [emoji |-> v.emoji, name |-> v.name]

\* A slip that puts the variant first in the list.
AttachVariant_prepend(grouped, base_name, variant) ==
    [grouped EXCEPT ![KeyIndex(grouped, base_name)].value.variants =
                        <<VariantRef(variant)>> \o @]

\* A slip that keeps only the last variant attached.
AttachVariant_replace(grouped, base_name, variant) ==
    [grouped EXCEPT ![KeyIndex(grouped, base_name)].value.variants =
                        <<VariantRef(variant)>>]

\* lines 192-195
AttachVariant(grouped, base_name, variant) ==
    [grouped EXCEPT ![KeyIndex(grouped, base_name)].value.variants =
                        Append(@, VariantRef(variant))]

\* A slip that names the synthesized entry after its first variant.
SynthesizedEntry_variant_name(base_name, variants) ==
    [emoji |-> variants[1].emoji,
     name |-> variants[1].name,
     variants |-> [i \in 1..Len(variants) |-> VariantRef(variants[i])],
     category |-> variants[1].category,
     searchable |-> Searchable(variants[1].emoji, variants[1].name)]

\* A slip that leaves the first variant out of the synthesized entry's list.
SynthesizedEntry_skip_first(base_name, variants) ==
    [emoji |-> variants[1].emoji,
     name |-> base_name,
     variants |-> [i \in 1..(Len(variants) - 1) |-> VariantRef(variants[i + 1])],
     category |-> variants[1].category,
     searchable |-> Searchable(variants[1].emoji, base_name)]

\* A slip that takes the synthesized entry's emoji from the last variant.
SynthesizedEntry_last_variant(base_name, variants) ==
    [emoji |-> variants[Len(variants)].emoji,
     name |-> base_name,
     variants |-> [i \in 1..Len(variants) |-> VariantRef(variants[i])],
     category |-> variants[1].category,
     searchable |-> Searchable(variants[Len(variants)].emoji, base_name)]

\* lines 199-206
SynthesizedEntry(base_name, variants) ==
    [emoji |-> variants[1].emoji,
     name |-> base_name,
     variants |-> [i \in 1..Len(variants) |-> VariantRef(variants[i])],
     category |-> variants[1].category,
     searchable |-> Searchable(variants[1].emoji, base_name)]

-----------------------------------------------------------------------------
(* sorted(), lines 209-215: Python orders str by code point, tuples        *)
(* lexicographically, and its sort is stable.                              *)

\* The printable ASCII symbols of code points 32 to 95.
AsciiLow ==
    Str(" !\"#$%&'()*+,-./0123456789:;<=>?@ABCDEFGHIJKLMNOPQRSTUVWXYZ[\\]^_")

\* The printable ASCII symbols of code points 97 to 126.
AsciiHigh == Str("abcdefghijklmnopqrstuvwxyz{|}~")

\* The other code points of the model's datasets.
OtherCodePoints ==
    { <<"U+200D", 8205>>, <<"U+2640", 9792>>, <<"U+2642", 9794>>, <<"U+FE0F", 65039>>,
      <<"U+1F198", 127384>>, <<"U+1F3FB", 127995>>, <<"U+1F3FF", 127999>>,
      <<"U+1F44D", 128077>>, <<"U+1F469", 128105>>, <<"U+1F926", 129318>>,
      <<"U+1F9B0", 129456>> }

\* ord(c)
CodePoint(c) ==
    IF \E i \in 1..Len(AsciiLow) : AsciiLow[i] = c
    THEN 31 + (CHOOSE i \in 1..Len(AsciiLow) : AsciiLow[i] = c)
    ELSE IF \E i \in 1..Len(AsciiHigh) : AsciiHigh[i] = c
    THEN 96 + (CHOOSE i \in 1..Len(AsciiHigh) : AsciiHigh[i] = c)
    ELSE (CHOOSE p \in OtherCodePoints : p[1] = c)[2]

\* a < b for str
StrLess(a, b) ==
    \E i \in 1..(Len(b)) :
        /\ \A k \in 1..(i - 1) : k <= Len(a) /\ a[k] = b[k]
        /\ \/ i = Len(a) + 1
           \/ i <= Len(a) /\ CodePoint(a[i]) < CodePoint(b[i])

\* (x["category"], x["name"]) < (y["category"], y["name"]), line 211
KeyLess(x, y) ==
    \/ StrLess(x.category, y.category)
    \/ x.category = y.category /\ StrLess(x.name, y.name)

\* e put into the sorted list after every element that is not greater (stable)
RECURSIVE InsertSorted(_, _)
InsertSorted(list, e) ==
    IF list = <<>> THEN <<e>>
    ELSE IF KeyLess(e, list[Len(list)])
    THEN CHOOSE r \in {Append(front, list[Len(list)]) :
                          front \in {InsertSorted(SubSeq(list, 1, Len(list) - 1), e)}} : TRUE
    ELSE Append(list, e)

\* sorted(list, key=lambda x: (x["category"], x["name"])), lines 209-212
RECURSIVE SortEntries(_)
SortEntries(list) ==
    IF list = <<>> THEN <<>>
    ELSE CHOOSE r \in {InsertSorted(sorted, list[Len(list)]) :
                          sorted \in {SortEntries(SubSeq(list, 1, Len(list) - 1))}} : TRUE

\* sorted(set), line 215
RECURSIVE SortStrings(_)
SortStrings(S) ==
    IF S = {} THEN <<>>
    ELSE CHOOSE r \in {<<m>> \o SortStrings(S \ {m}) :
                          m \in {x \in S : \A y \in S : ~StrLess(y, x)}} : TRUE

\* sum(len(e.get("variants", [])) for e in final_emojis), line 221
RECURSIVE SumVariants(_)
SumVariants(list) ==
    IF list = <<>> THEN 0
    ELSE Len(list[1].variants) + SumVariants(Tail(list))

\* lines 209-222
Catalog(grouped) ==
    CHOOSE r \in
        {[emojis |-> final_emojis,
          categories |-> SortStrings({final_emojis[i].category : i \in 1..Len(final_emojis)}),
          totalCount |-> Len(final_emojis),
          variantCount |-> SumVariants(final_emojis)] :
         final_emojis \in {SortEntries([i \in 1..Len(grouped) |-> grouped[i].value])}} : TRUE

-----------------------------------------------------------------------------
(* The inputs.                                                             *)

\* Items of emoji.EMOJI_DATA: the emoji and its data, has_en telling whether
\* data holds the key 'en'.
Pool ==
    { [emoji |-> <<"U+1F44D">>, has_en |-> TRUE, en |-> Str(":thumbs_up:")],
      [emoji |-> <<"U+1F44D", "U+1F3FB">>, has_en |-> TRUE,
       en |-> Str(":thumbs_up_light_skin_tone:")],
      [emoji |-> <<"U+1F44D", "U+1F3FF">>, has_en |-> TRUE,
       en |-> Str(":thumbs_up_dark_skin_tone:")],
      [emoji |-> <<"U+1F469", "U+200D", "U+1F9B0">>, has_en |-> TRUE,
       en |-> Str(":woman_red_hair:")],
      [emoji |-> <<"U+1F926", "U+200D", "U+2642", "U+FE0F">>, has_en |-> TRUE,
       en |-> Str(":man_facepalming:")],
      [emoji |-> <<"U+1F926", "U+200D", "U+2640", "U+FE0F">>, has_en |-> TRUE,
       en |-> Str(":woman_facepalming:")],
      [emoji |-> <<"U+1F198">>, has_en |-> FALSE, en |-> <<>>] }

\* The datasets: a dict holds each emoji once.
Datasets ==
    { d \in UNION {[1..n -> Pool] : n \in 0..MaxRecords} :
        \A i, j \in 1..Len(d) : i # j => d[i].emoji # d[j].emoji }

\* The lines of the supplementary resource.
EmojiTestLines ==
    << [kind |-> "comment"],
       [kind |-> "data", nparts |-> 4,
        code_points |-> <<[hex |-> TRUE, cp |-> "U+1F198"]>>],
       [kind |-> "group", text |-> Str("People & Body")],
       [kind |-> "subgroup", text |-> Str("hand-fingers-closed")],
       [kind |-> "data", nparts |-> 4,
        code_points |-> <<[hex |-> TRUE, cp |-> "U+1F44D"]>>],
       [kind |-> "data", nparts |-> 4,
        code_points |-> <<[hex |-> TRUE, cp |-> "U+1F44D"],
                          [hex |-> TRUE, cp |-> "U+1F3FB"]>>],
       [kind |-> "data", nparts |-> 2,
        code_points |-> <<[hex |-> TRUE, cp |-> "U+1F926"], [hex |-> TRUE, cp |-> "U+200D"],
                          [hex |-> TRUE, cp |-> "U+2642"], [hex |-> TRUE, cp |-> "U+FE0F"]>>],
       [kind |-> "data", nparts |-> 4,
        code_points |-> <<[hex |-> FALSE, cp |-> "U+1F926"]>>],
       [kind |-> "data", nparts |-> 4, code_points |-> <<>>],
       [kind |-> "group", text |-> Str("Animals & Nature")],
       [kind |-> "data", nparts |-> 1,
        code_points |-> <<[hex |-> TRUE, cp |-> "U+1F469"]>>],
       [kind |-> "data", nparts |-> 4,
        code_points |-> <<[hex |-> TRUE, cp |-> "U+1F469"], [hex |-> TRUE, cp |-> "U+200D"],
                          [hex |-> TRUE, cp |-> "U+1F9B0"]>>] >>

\* What urlopen(url) may give: the text, or an exception.
Responses ==
    { [ok |-> TRUE, lines |-> EmojiTestLines],
      [ok |-> FALSE, lines |-> EmojiTestLines] }

\* Tokens raw names are built from, joined by '_'.
RawTokens ==
    { Str("man"), Str("woman"), Str("thumbs"), Str("red"), Str("light"),
      Str("medium"), Str("dark"), Str("skin_tone"), Str("hair"), Str("SOS") }

\* Symbols raw names are built from, one by one.
RawAlphabet == { ":", "_", " ", "a", "B" }

RawNames ==
    { <<":">> \o join("_", ws) \o <<":">> :
          ws \in UNION {[1..n -> RawTokens] : n \in 1..MaxWords} }
    \cup UNION {[1..n -> RawAlphabet] : n \in 0..MaxRawLen}

-----------------------------------------------------------------------------
(* generate_emoji_data, lines 126-222, step by step.                       *)

Init ==
    /\ EMOJI_DATA \in Datasets
    /\ pc = "fetch"
    /\ fetch_failed = FALSE
    /\ unicode_categories = EmptyDict
    /\ all_emojis = <<>>
    /\ seen = {}
    /\ grouped_emojis = <<>>
    /\ variants_map = <<>>
    /\ idx = 1
    /\ vidx = 1
    /\ result = <<>>
    /\ step = "idle"
    /\ raw_name = <<>>
    /\ display = <<>>
    /\ base = <<>>
    /\ rebase = <<>>

\* line 132
Fetch ==
    /\ pc = "fetch"
    /\ \E response \in Responses :
          LET r == fetch_unicode_emoji_data(response)
          IN  /\ fetch_failed' = ~response.ok
              /\ IF r.raised
                 THEN pc' = "aborted" /\ UNCHANGED unicode_categories
                 ELSE pc' = "collect" /\ unicode_categories' = r.value
    /\ idx' = 1
    /\ UNCHANGED <<EMOJI_DATA, all_emojis, seen, grouped_emojis, variants_map,
                   vidx, result>>
    /\ UNCHANGED nameVars

\* lines 137-161: one item of EMOJI_DATA
CollectItem ==
    /\ pc = "collect"
    /\ idx <= Len(EMOJI_DATA)
    /\ \E after \in {CollectInto(all_emojis, EMOJI_DATA[idx], unicode_categories)} :
          IF EMOJI_DATA[idx].emoji \in seen
          THEN UNCHANGED <<all_emojis, seen>>
          ELSE /\ all_emojis' = after
               /\ seen' = IF after # all_emojis
                          THEN seen \cup {EMOJI_DATA[idx].emoji} ELSE seen
    /\ idx' = idx + 1
    /\ UNCHANGED <<EMOJI_DATA, pc, fetch_failed, unicode_categories,
                   grouped_emojis, variants_map, vidx, result>>
    /\ UNCHANGED nameVars

\* line 137 exhausted; lines 164-165
CollectEnd ==
    /\ pc = "collect"
    /\ idx > Len(EMOJI_DATA)
    /\ pc' = "group"
    /\ idx' = 1
    /\ grouped_emojis' = <<>>
    /\ variants_map' = <<>>
    /\ UNCHANGED <<EMOJI_DATA, fetch_failed, unicode_categories, all_emojis,
                   seen, vidx, result>>
    /\ UNCHANGED nameVars

\* lines 167-186: one item of all_emojis
GroupItem ==
    /\ pc = "group"
    /\ idx <= Len(all_emojis)
    /\ \E base_name \in {get_base_name(all_emojis[idx].name)} :
          IF should_group(base_name, all_emojis[idx].name)
          THEN /\ variants_map' = AddVariant(variants_map, base_name, all_emojis[idx])
               /\ UNCHANGED grouped_emojis
          ELSE /\ grouped_emojis' = AddBase(grouped_emojis, base_name, all_emojis[idx])
               /\ UNCHANGED variants_map
    /\ idx' = idx + 1
    /\ UNCHANGED <<EMOJI_DATA, pc, fetch_failed, unicode_categories, all_emojis,
                   seen, vidx, result>>
    /\ UNCHANGED nameVars

\* line 167 exhausted
GroupEnd ==
    /\ pc = "group"
    /\ idx > Len(all_emojis)
    /\ pc' = "reconcile"
    /\ idx' = 1
    /\ vidx' = 1
    /\ UNCHANGED <<EMOJI_DATA, fetch_failed, unicode_categories, all_emojis,
                   seen, grouped_emojis, variants_map, result>>
    /\ UNCHANGED nameVars

\* lines 190-195: the base exists, one variant of the group is appended
AttachStep ==
    /\ pc = "reconcile"
    /\ idx <= Len(variants_map)
    /\ HasKey(grouped_emojis, variants_map[idx].key)
    /\ vidx <= Len(variants_map[idx].value)
    /\ grouped_emojis' = AttachVariant(grouped_emojis, variants_map[idx].key,
                                       variants_map[idx].value[vidx])
    /\ vidx' = vidx + 1
    /\ UNCHANGED <<EMOJI_DATA, pc, fetch_failed, unicode_categories, all_emojis,
                   seen, variants_map, idx, result>>
    /\ UNCHANGED nameVars

\* line 191 exhausted
AttachEnd ==
    /\ pc = "reconcile"
    /\ idx <= Len(variants_map)
    /\ HasKey(grouped_emojis, variants_map[idx].key)
    /\ vidx > Len(variants_map[idx].value)
    /\ idx' = idx + 1
    /\ vidx' = 1
    /\ UNCHANGED <<EMOJI_DATA, pc, fetch_failed, unicode_categories, all_emojis,
                   seen, grouped_emojis, variants_map, result>>
    /\ UNCHANGED nameVars

\* lines 196-206: no base exists, the entry is made from the group
SynthesizeBase ==
    /\ pc = "reconcile"
    /\ idx <= Len(variants_map)
    /\ ~HasKey(grouped_emojis, variants_map[idx].key)
    /\ vidx = 1
    /\ grouped_emojis' =
          IF variants_map[idx].value # <<>>
          THEN Append(grouped_emojis,
                      [key |-> variants_map[idx].key,
                       value |-> SynthesizedEntry(variants_map[idx].key,
                                                  variants_map[idx].value)])
          ELSE grouped_emojis
    /\ idx' = idx + 1
    /\ UNCHANGED <<EMOJI_DATA, pc, fetch_failed, unicode_categories, all_emojis,
                   seen, variants_map, vidx, result>>
    /\ UNCHANGED nameVars

\* line 189 exhausted; lines 209-222
Return ==
    /\ pc = "reconcile"
    /\ idx > Len(variants_map)
    /\ \E catalog \in {Catalog(grouped_emojis)} : result' = catalog
    /\ pc' = "done"
    /\ UNCHANGED <<EMOJI_DATA, fetch_failed, unicode_categories, all_emojis,
                   seen, grouped_emojis, variants_map, idx, vidx>>
    /\ UNCHANGED nameVars

Next ==
    \/ Fetch
    \/ CollectItem
    \/ CollectEnd
    \/ GroupItem
    \/ GroupEnd
    \/ AttachStep
    \/ AttachEnd
    \/ SynthesizeBase
    \/ Return

Spec == Init /\ [][Next]_vars

-----------------------------------------------------------------------------
(* The pure functions applied in turn to one raw name.                     *)

NamesInit ==
    /\ EMOJI_DATA = <<>>
    /\ pc = "idle"
    /\ fetch_failed = FALSE
    /\ unicode_categories = EmptyDict
    /\ all_emojis = <<>>
    /\ seen = {}
    /\ grouped_emojis = <<>>
    /\ variants_map = <<>>
    /\ idx = 1
    /\ vidx = 1
    /\ result = <<>>
    /\ step = "raw"
    /\ raw_name \in RawNames
    /\ display = <<>>
    /\ base = <<>>
    /\ rebase = <<>>

\* line 143
Clean ==
    /\ step = "raw"
    /\ display' = clean_emoji_name(raw_name)
    /\ step' = "display"
    /\ UNCHANGED <<raw_name, base, rebase>>
    /\ UNCHANGED pipelineVars

\* line 170
Extract ==
    /\ step = "display"
    /\ base' = get_base_name(display)
    /\ step' = "base"
    /\ UNCHANGED <<raw_name, display, rebase>>
    /\ UNCHANGED pipelineVars

\* get_base_name applied to its own result
ExtractAgain ==
    /\ step = "base"
    /\ rebase' = get_base_name(base)
    /\ step' = "rebase"
    /\ UNCHANGED <<raw_name, display, base>>
    /\ UNCHANGED pipelineVars

NamesNext == Clean \/ Extract \/ ExtractAgain

NamesSpec == NamesInit /\ [][NamesNext]_vars

-----------------------------------------------------------------------------
(* Properties of the pure functions, under NamesSpec.                      *)

\* C1: get_base_name is idempotent: applied to a base name it has
\* extracted, it yields that base name again.
C1_BaseNameIdempotent == step = "rebase" => rebase = base

\* The symbols of s that are no whitespace, in order.
Letters(s) == SelectSeq(s, LAMBDA c : ~IsSpace(c))

\* How many of s[1..i] are no whitespace.
RankAt(s, i) == Cardinality({k \in 1..i : ~IsSpace(s[k])})

\* The position in s of its k-th symbol that is no whitespace.
PosOf(s, k) == CHOOSE p \in 1..Len(s) : ~IsSpace(s[p]) /\ RankAt(s, p) = k

\* Whether position i of s starts a whitespace-separated word.
StartsWord(s, i) == ~IsSpace(s[i]) /\ (i = 1 \/ IsSpace(s[i - 1]))

\* The raw name with its surrounding colons stripped and '_' replaced by ' '.
Unwrapped(raw) == replace(StripChar(raw, ":"), "_", " ")

\* The words of d are the words of src, one space between two of them, each
\* symbol d[i] being First(c) or Rest(c) of the symbol c of src it comes from.
WordsMapped(d, src, First(_), Rest(_)) ==
    /\ Len(Letters(d)) = Len(Letters(src))
    /\ \A i \in 1..Len(d) :
          IF IsSpace(d[i])
          THEN i > 1 /\ i < Len(d) /\ ~IsSpace(d[i - 1]) /\ ~IsSpace(d[i + 1])
          ELSE LET p == PosOf(src, RankAt(d, i))
               IN  /\ StartsWord(d, i) <=> StartsWord(src, p)
                   /\ d[i] = IF StartsWord(d, i) THEN First(src[p]) ELSE Rest(src[p])

Same(c) == c

\* C6 as stated: clean_emoji_name upper-cases the first letter of each word and
\* leaves every other letter of the word in its original case.
C6_RestKeepsCase ==
    step \in {"display", "base", "rebase"} =>
        WordsMapped(display, Unwrapped(raw_name), UpperChar, Same)

\* C6 as amended: clean_emoji_name upper-cases the first letter of each word
\* and lower-cases every other letter of the word.
C6_RestLowerCased ==
    step \in {"display", "base", "rebase"} =>
        WordsMapped(display, Unwrapped(raw_name), UpperChar, LowerChar)

\* A raw name with capitals after the first letter of a word has been cleaned.
C6_Witness ==
    /\ step = "display"
    /\ raw_name = Str(":SOS_man:")
    /\ display = Str("Sos Man")

-----------------------------------------------------------------------------
(* Properties of generate_emoji_data, under Spec.                          *)

\* The marker test of the variant classifier, as the claim words it.
HasMarker(name) == \E x \in VariantMarkers : Contains(name, x)

\* The base name of each item of all_emojis.
BaseNames == [i \in 1..Len(all_emojis) |-> get_base_name(all_emojis[i].name)]

\* The indices of the items that take the variant branch (line 172), given
\* the base names bn.
VariantIndices(bn) == {i \in DOMAIN bn : should_group(bn[i], all_emojis[i].name)}

\* The references to the items of indices vs whose base name is k, in
\* encounter order.
GroupRefs(bn, vs, k) ==
    LET members == SelectSeq([i \in DOMAIN bn |-> i], LAMBDA i : i \in vs /\ bn[i] = k)
    IN  [n \in 1..Len(members) |->
            [emoji |-> all_emojis[members[n]].emoji, name |-> all_emojis[members[n]].name]]

\* The entries of the returned catalog.
Entries == {result.emojis[i] : i \in 1..Len(result.emojis)}

\* The variant references of an entry.
RefsOf(e) == {e.variants[i] : i \in 1..Len(e.variants)}

\* The emoji of the variant references of a set of entries.
VariantEmojis(es) == UNION {{v.emoji : v \in RefsOf(e)} : e \in es}

\* How many items of all_emojis the second loop has dealt with.
Grouped ==
    IF pc = "group" THEN idx - 1
    ELSE IF pc \in {"reconcile", "done"} THEN Len(all_emojis)
    ELSE 0

\* The entries of grouped_emojis.
GroupedEntries == {grouped_emojis[i].value : i \in 1..Len(grouped_emojis)}

\* The items the variants_map holds in its lists.
InVariantsMap ==
    UNION {{variants_map[g].value[j] : j \in 1..Len(variants_map[g].value)} :
              g \in 1..Len(variants_map)}

\* C2 as stated: in the returned catalog every variant's emoji differs from the
\* emoji of the entry that lists it, for seeded and for synthesized entries.
C2_VariantDiffersFromEntry ==
    pc = "done" =>
        \A e \in Entries : \A v \in RefsOf(e) : v.emoji # e.emoji

\* C2 as amended: in the returned catalog, every variant of an entry seeded
\* from a base candidate has an emoji other than the entry's; in an entry
\* synthesized from a variant group the first variant, and no other, has the
\* entry's own emoji.
C2_VariantDiffersUnlessSynthesized ==
    pc = "done" =>
        LET bn == BaseNames
            vs == VariantIndices(bn)
        IN  \A e \in Entries :
                IF \E i \in DOMAIN bn \ vs : all_emojis[i].emoji = e.emoji
                THEN \A v \in RefsOf(e) : v.emoji # e.emoji
                ELSE /\ Len(e.variants) >= 1
                     /\ e.variants[1].emoji = e.emoji
                     /\ \A j \in 2..Len(e.variants) : e.variants[j].emoji # e.emoji

\* A catalog with a seeded entry that has variants and a synthesized entry.
C2_Witness ==
    /\ pc = "done"
    /\ \E e \in Entries :
          /\ e.variants # <<>>
          /\ \A v \in RefsOf(e) : v.emoji # e.emoji
    /\ \E e \in Entries :
          /\ Len(e.variants) >= 1
          /\ e.variants[1].emoji = e.emoji

\* C3: no entry lists among its variants a reference whose (emoji, name) pair
\* is the entry's own (emoji, name) pair.
C3_EntryNotItsOwnVariant ==
    /\ \A e \in GroupedEntries : \A v \in RefsOf(e) :
          ~(v.emoji = e.emoji /\ v.name = e.name)
    /\ pc = "done" =>
          \A e \in Entries : \A v \in RefsOf(e) :
              ~(v.emoji = e.emoji /\ v.name = e.name)

\* A catalog with an entry synthesized from its first variant.
C3_Witness ==
    /\ pc = "done"
    /\ \E e \in Entries : e.variants # <<>> /\ e.variants[1].emoji = e.emoji

\* C4: a base name that only variant candidates produce has exactly one entry:
\* its emoji is the first variant's, its name the base name, its category the
\* first variant's, and its variants are the whole group in encounter order.
C4_SynthesizedFromFirstVariant ==
    pc = "done" =>
        LET bn == BaseNames
            vs == VariantIndices(bn)
        IN  \A i \in vs :
                (/\ \A j \in DOMAIN bn \ vs : bn[j] # bn[i]
                 /\ \A j \in vs : bn[j] = bn[i] => i <= j)
                => LET first == all_emojis[i]
                       hits  == {n \in 1..Len(result.emojis) :
                                    result.emojis[n].emoji = first.emoji}
                   IN  /\ Cardinality(hits) = 1
                       /\ Cardinality({n \in 1..Len(grouped_emojis) :
                                          grouped_emojis[n].key = bn[i]}) = 1
                       /\ \A n \in hits :
                             /\ result.emojis[n] = Get(grouped_emojis, bn[i])
                             /\ result.emojis[n].name = bn[i]
                             /\ result.emojis[n].category = first.category
                             /\ result.emojis[n].variants = GroupRefs(bn, vs, bn[i])

\* A catalog with an entry synthesized from a group of two variants.
C4_Witness ==
    /\ pc = "done"
    /\ LET bn == BaseNames
           vs == VariantIndices(bn)
       IN  \E i, j \in vs :
              /\ i < j
              /\ bn[i] = bn[j]
              /\ \A n \in DOMAIN bn \ vs : bn[n] # bn[i]

\* C5: of two base candidates with one base name the first seen gives the
\* entry its emoji, name, category and searchable text; the later one's
\* character is no entry's emoji and is in no variants list.
C5_FirstBaseCandidateWins ==
    pc = "done" =>
        LET bn == BaseNames
            bs == DOMAIN bn \ VariantIndices(bn)
        IN  \A i, j \in bs :
                (i < j /\ bn[i] = bn[j] /\ \A n \in bs : bn[n] = bn[i] => i <= n)
                => /\ HasKey(grouped_emojis, bn[i])
                   /\ Get(grouped_emojis, bn[i]) \in Entries
                   /\ Get(grouped_emojis, bn[i]).emoji = all_emojis[i].emoji
                   /\ Get(grouped_emojis, bn[i]).name = all_emojis[i].name
                   /\ Get(grouped_emojis, bn[i]).category = all_emojis[i].category
                   /\ Get(grouped_emojis, bn[i]).searchable =
                          lower(all_emojis[i].emoji \o <<" ">> \o all_emojis[i].name)
                   /\ \A e \in Entries : e.emoji # all_emojis[j].emoji
                   /\ all_emojis[j].emoji \notin VariantEmojis(Entries)

\* A catalog built from two base candidates with one base name.
C5_Witness ==
    /\ pc = "done"
    /\ LET bn == BaseNames
           bs == DOMAIN bn \ VariantIndices(bn)
       IN  \E i, j \in bs : i < j /\ bn[i] = bn[j]

\* C7: a record is a variant exactly when its base name differs from its
\* display name and the display name holds a marker; a record whose base name
\* differs and whose display name holds no marker is a base candidate under its
\* shortened base name and is in no variants list.
C7_VariantIffShortenedAndMarked ==
    \A bn \in {[i \in 1..Grouped |-> get_base_name(all_emojis[i].name)]} :
    \A marked \in {{i \in 1..Grouped : HasMarker(all_emojis[i].name)}} :
    \A listed \in {InVariantsMap} :
    \A referred \in {VariantEmojis(GroupedEntries) \cup
                         (IF pc = "done" THEN VariantEmojis(Entries) ELSE {})} :
        \A i \in 1..Grouped :
            LET item == all_emojis[i]
            IN  /\ item \in listed <=> (bn[i] # item.name /\ i \in marked)
                /\ (bn[i] # item.name /\ i \notin marked) =>
                      /\ HasKey(grouped_emojis, bn[i])
                      /\ (\A j \in 1..(i - 1) : bn[j] # bn[i])
                            => /\ Get(grouped_emojis, bn[i]).emoji = item.emoji
                               /\ Get(grouped_emojis, bn[i]).name = item.name
                      /\ item.emoji \notin referred

\* A catalog holding a record shortened by its gender prefix alone, and a variant.
C7_Witness ==
    /\ pc = "done"
    /\ \E i \in 1..Len(all_emojis) :
          /\ get_base_name(all_emojis[i].name) # all_emojis[i].name
          /\ ~HasMarker(all_emojis[i].name)
    /\ \E i \in 1..Len(all_emojis) : all_emojis[i] \in InVariantsMap

\* The records of EMOJI_DATA with a usable name.
Usable == {i \in 1..Len(EMOJI_DATA) :
              LET name == clean_emoji_name(RawNameOf(EMOJI_DATA[i]))
              IN  name # <<>> /\ name # EMOJI_DATA[i].emoji}

\* The catalog is there: every usable record was collected, and is an entry's
\* emoji, or a variant of an entry, or a base candidate whose base name an
\* earlier one had taken; and every category, in all_emojis and in the
\* catalog, is the one the keyword heuristic gives the record's display name.
HeuristicCatalog ==
    /\ DOMAIN result = {"emojis", "categories", "totalCount", "variantCount"}
    /\ {all_emojis[i].emoji : i \in 1..Len(all_emojis)} = {EMOJI_DATA[i].emoji : i \in Usable}
    /\ \A i \in 1..Len(all_emojis) :
          /\ all_emojis[i].category = get_category_from_name(all_emojis[i].name)
          /\ \E e \in Entries :
                \/ e.emoji = all_emojis[i].emoji
                \/ all_emojis[i].emoji \in VariantEmojis({e})
                \/ e = Get(grouped_emojis, get_base_name(all_emojis[i].name))
    /\ \A e \in Entries :
          \E i \in 1..Len(all_emojis) :
              /\ all_emojis[i].emoji = e.emoji
              /\ e.category = all_emojis[i].category

\* A bound on the steps generate_emoji_data has left: the passes left, and
\* within the running loop the iterations left.
StepsLeft ==
    LET n == Len(EMOJI_DATA) + 2
    IN  CASE pc = "fetch"     -> 4 * n * n
          [] pc = "collect"   -> 3 * n * n + (Len(EMOJI_DATA) + 1 - idx)
          [] pc = "group"     -> 2 * n * n + (Len(all_emojis) + 1 - idx)
          [] pc = "reconcile" -> n * n + (Len(variants_map) + 1 - idx) * n + 1 - vidx
          [] OTHER            -> 0

\* While the run has not returned, it has a step to take.
NotStuck == pc # "done" => ENABLED Next

\* Each step brings the run nearer to its end.
Progress == StepsLeft' < StepsLeft /\ StepsLeft' >= 0

\* C8: a failed fetch never aborts the run: the lookup is empty, the run goes
\* on, step by step, to its end, with a complete catalog in which every
\* category comes from the name heuristic.
C8_FetchFailureDegradesOnly ==
    /\ [](fetch_failed => (pc # "aborted" /\ unicode_categories = EmptyDict /\ NotStuck))
    /\ [][fetch_failed' => Progress]_vars
    /\ [](fetch_failed /\ pc = "done" => HeuristicCatalog)

\* A run whose fetch failed returned an entry the resource has a group for.
C8_Witness ==
    /\ pc = "done"
    /\ fetch_failed
    /\ \E e \in Entries : e.emoji = <<"U+1F44D">> /\ e.category = Str("Symbols")

IsPrefix(s, u) == Len(s) <= Len(u) /\ SubSeq(u, 1, Len(s)) = s

\* One step keeps every key of the base-name map, its emoji, name, category
\* and searchable, and at most appends to its variants.
KeysKept ==
    \A n \in 1..Len(grouped_emojis) :
        LET k == grouped_emojis[n].key
            old == grouped_emojis[n].value
        IN  /\ HasKey(grouped_emojis', k)
            /\ Get(grouped_emojis', k).emoji = old.emoji
            /\ Get(grouped_emojis', k).name = old.name
            /\ Get(grouped_emojis', k).category = old.category
            /\ Get(grouped_emojis', k).searchable = old.searchable
            /\ IsPrefix(old.variants, Get(grouped_emojis', k).variants)

KeysKeptInPasses == pc \in {"group", "reconcile"} => KeysKept

\* C9: during the partition and reconciliation passes a key of the base-name
\* map stays, its emoji, name, category and searchable never change, and its
\* variants list changes only by appending at its end.
C9_WriteOnceAppendOnly == [][KeysKeptInPasses]_vars

\* The second variant of a group has been appended to an existing entry.
C9_Witness ==
    /\ pc = "reconcile"
    /\ vidx = 3
    /\ \E e \in GroupedEntries : Len(e.variants) = 2 /\ e.variants[1].emoji # e.emoji

\* C10: every record classified as a variant is exactly once in the variants
\* list of exactly one entry, the entry of its base name, and variantCount is
\* the number of records classified as variants.
C10_NoVariantLostOrDuplicated ==
    pc = "done" =>
        LET bn == BaseNames
            vs == VariantIndices(bn)
        IN  /\ \A i \in vs :
                  LET item == all_emojis[i]
                      places == {p \in (1..Len(result.emojis)) \X (1..Len(all_emojis)) :
                                    /\ p[2] <= Len(result.emojis[p[1]].variants)
                                    /\ result.emojis[p[1]].variants[p[2]].emoji = item.emoji}
                  IN  /\ Cardinality(places) = 1
                      /\ \A p \in places :
                            /\ result.emojis[p[1]] = Get(grouped_emojis, bn[i])
                            /\ result.emojis[p[1]].variants[p[2]].name = item.name
            /\ result.variantCount = Cardinality(vs)

\* A catalog with variants under a seeded entry and under a synthesized one.
C10_Witness ==
    /\ pc = "done"
    /\ result.variantCount >= 2
    /\ Cardinality({e \in Entries : e.variants # <<>>}) >= 2

=============================================================================
